---- MODULE Spec2Model ----
(***************************************************************************)
(* A model of js-surf: the ParseSource cursor (src/unnamed/part_000) and   *)
(* the SURF character parser and serializer (src/surf.js).                 *)
(*                                                                         *)
(* JavaScript values are tagged records, so that a number, NaN, undefined, *)
(* null, a string and a function object stay distinct and the operators    *)
(* ==, ===, >= and the arithmetic of the source act on them as JavaScript  *)
(* does.  A string is the sequence of its 16-bit code units.               *)
(***************************************************************************)
EXTENDS Integers, Sequences, FiniteSets, TLC

VARIABLES buffer, index, op, arg, pre, result, onlyReads, reads, serialized,
          sources, last, alone

vars == <<buffer, index, op, arg, pre, result, onlyReads, reads, serialized,
          sources, last, alone>>

\* the ParseSource objects of two parses that run side by side
pairVars == <<sources, last, alone>>
\* the single ParseSource of the other specifications
soloVars == <<buffer, index, op, arg, pre, result, onlyReads, reads, serialized>>

(***************************************************************************)
(* Bounds of the model.                                                    *)
(***************************************************************************)
\* longest buffer enumerated exhaustively over ShortUnits
MaxLen == 3
\* largest count passed to readRequiredCount
MaxCount == 5
\* how far below 0 a negative count may take the index before the model stops
MaxBelow == 2
\* longest buffer of two parses that run side by side
MaxPairLen == 2

(***************************************************************************)
(* JavaScript values.                                                      *)
(***************************************************************************)
JSNumber(x) == [t |-> "number", n |-> x, s |-> <<>>]
NaN == [t |-> "NaN", n |-> 0, s |-> <<>>]
Undefined == [t |-> "undefined", n |-> 0, s |-> <<>>]
Null == [t |-> "null", n |-> 0, s |-> <<>>]
JSString(str) == [t |-> "string", n |-> 0, s |-> str]
\* a function object, identified by the code units of its name
JSFunction(name) == [t |-> "function", n |-> 0, s |-> name]

\* a == b for the operand types the sources compare: numbers, NaN,
\* undefined, null, strings against strings, and a function object, whose
\* primitive value is its source text and so the number NaN
LooseEquals(a, b) ==
  IF a.t = "NaN" \/ b.t = "NaN" THEN FALSE
  ELSE IF a.t \in {"undefined", "null"} THEN b.t \in {"undefined", "null"}
  ELSE IF b.t \in {"undefined", "null"} THEN FALSE
  ELSE IF a.t = "function" /\ b.t = "function" THEN a.s = b.s
  ELSE IF a.t = "function" \/ b.t = "function" THEN FALSE
  ELSE a.t = b.t /\ a.n = b.n /\ a.s = b.s

\* a === b
StrictEquals(a, b) == a.t # "NaN" /\ a = b

\* a >= k for a number k: undefined and a function object convert to NaN
GreaterOrEqual(a, k) ==
  IF a.t = "number" THEN a.n >= k ELSE IF a.t = "null" THEN 0 >= k ELSE FALSE

\* a <= k for a number k
LessOrEqual(a, k) ==
  IF a.t = "number" THEN a.n <= k ELSE IF a.t = "null" THEN 0 <= k ELSE FALSE

(***************************************************************************)
(* Outcomes of a call: a returned value or a thrown error.                 *)
(***************************************************************************)
Return(v) ==
  [kind |-> "return", value |-> v, error |-> "", expected |-> Undefined, actual |-> Undefined]
Throw(e) ==
  [kind |-> "throw", value |-> Undefined, error |-> e, expected |-> Undefined, actual |-> Undefined]
ParseEndError == Throw("ParseEndError")
ParseUnexpectedDataError(expected, actual) ==
  [kind |-> "throw", value |-> Undefined, error |-> "ParseUnexpectedDataError",
   expected |-> expected, actual |-> actual]
ParseError == Throw("ParseError")
NoResult ==
  [kind |-> "none", value |-> Undefined, error |-> "", expected |-> Undefined, actual |-> Undefined]

(***************************************************************************)
(* String primitives of the language used by the cursor.                   *)
(***************************************************************************)
Min(a, b) == IF a < b THEN a ELSE b
Max(a, b) == IF a > b THEN a ELSE b

\* string.charCodeAt(i): the unit at the 0-based offset i, NaN outside the string
charCodeAt(string, i) ==
  IF i >= 0 /\ i < Len(string) THEN JSNumber(string[i + 1]) ELSE NaN

\* string.slice(start, end): negative offsets count from the end, both are
\* clamped to the string, and an empty range gives the empty string
slice(string, start, end) ==
  LET len == Len(string)
      from == IF start < 0 THEN Max(len + start, 0) ELSE Min(start, len)
      to == IF end < 0 THEN Max(len + end, 0) ELSE Min(end, len)
  IN IF from < to THEN SubSeq(string, from + 1, to) ELSE <<>>

(***************************************************************************)
(* ParseSource.  Each method is an operator from the fields (buffer,       *)
(* index) and the arguments to the outcome and the new index.              *)
(***************************************************************************)
ParseSource(string) == [buffer |-> string, index |-> 0]

\* no early return of its own: the condition under which checkNotEnd throws
atEnd(buf, idx) == idx >= Len(buf)

\* mutant: the end test is off by one
checkNotEnd_OffByOne(buf, idx) ==
  IF idx > Len(buf) THEN [res |-> ParseEndError, index |-> idx]
  ELSE [res |-> Return(Undefined), index |-> idx]

checkNotEnd(buf, idx) ==
  IF atEnd(buf, idx) THEN [res |-> ParseEndError, index |-> idx]
  ELSE [res |-> Return(Undefined), index |-> idx]

\* mutant: the end of the data is not checked before the read
readRequired_Unchecked(buf, idx) ==
  [res |-> Return(charCodeAt(buf, idx)), index |-> idx + 1]

readRequired(buf, idx) ==
  LET notEnd == checkNotEnd(buf, idx)
  IN IF notEnd.res.kind = "throw" THEN notEnd
     ELSE [res |-> Return(charCodeAt(buf, idx)), index |-> idx + 1]

\* mutant: the end of the slice is the count, not the offset behind the last unit
readRequiredCount_SliceToCount(buf, idx, count) ==
  IF idx > Len(buf) - count THEN [res |-> ParseEndError, index |-> idx]
  ELSE [res |-> Return(JSString(slice(buf, idx, count))), index |-> idx + count]

readRequiredCount(buf, idx, count) ==
  IF idx > Len(buf) - count THEN [res |-> ParseEndError, index |-> idx]
  ELSE [res |-> Return(JSString(slice(buf, idx, idx + count))), index |-> idx + count]

\* mutant: the unit that does not match is pushed back
check_PushBack(buf, idx, charCode) ==
  LET read == readRequired(buf, idx)
  IN IF read.res.kind = "throw" THEN read
     ELSE IF ~LooseEquals(read.res.value, charCode)
       THEN [res |-> ParseUnexpectedDataError(charCode, read.res.value), index |-> idx]
       ELSE read

check(buf, idx, charCode) ==
  LET read == readRequired(buf, idx)
  IN IF read.res.kind = "throw" THEN read
     ELSE IF ~LooseEquals(read.res.value, charCode)
       THEN [res |-> ParseUnexpectedDataError(charCode, read.res.value), index |-> read.index]
       ELSE read

(***************************************************************************)
(* SPEC: the frozen table of format constants.  A property the table does  *)
(* not define reads as undefined.                                          *)
(***************************************************************************)
CHARACTER_DELIMITER == 39
CHARACTER_ESCAPE == 92
CHARACTER_REQUIRED_ESCAPED_CHARACTERS == <<92, 8, 12, 10, 13, 9, 11>>
CHARACTER_OPTIONAL_ESCAPED_CHARACTERS == <<47>>
ESCAPED_BACKSPACE == 98
ESCAPED_FORM_FEED == 102
ESCAPED_LINE_FEED == 110
ESCAPED_CARRIAGE_RETURN == 114
ESCAPED_TAB == 116
ESCAPED_VERTICAL_TAB == 118
ESCAPED_UNICODE == 117
\* read by the parser, never set by the table
SOLIDUS_CHAR == Undefined
BACKSPACE_CHAR == Undefined
FORM_FEED_CHAR == Undefined
LINE_FEED_CHAR == Undefined
CARRIAGE_RETURN_CHAR == Undefined
CHARACTER_TABULATION_CHAR == Undefined
LINE_TABULATION_CHAR == Undefined

(***************************************************************************)
(* Number.parseInt(string, 16): leading white space is skipped, then an    *)
(* optional sign and an optional 0x or 0X; the value is that of the        *)
(* longest prefix of hexadecimal digits of the rest, NaN when it is empty. *)
(***************************************************************************)
WhiteSpaceUnits ==
  {9, 10, 11, 12, 13, 32, 160, 5760, 8232, 8233, 8239, 8287, 12288, 65279} \cup (8192 .. 8202)

RECURSIVE TrimStart(_)
TrimStart(str) ==
  IF str # <<>> /\ str[1] \in WhiteSpaceUnits THEN TrimStart(Tail(str)) ELSE str

HexDigitValue(u) ==
  IF u \in 48 .. 57 THEN u - 48
  ELSE IF u \in 65 .. 70 THEN u - 55
  ELSE IF u \in 97 .. 102 THEN u - 87
  ELSE -1

RECURSIVE HexPrefix(_)
HexPrefix(str) ==
  IF str # <<>> /\ HexDigitValue(str[1]) >= 0 THEN <<str[1]>> \o HexPrefix(Tail(str)) ELSE <<>>

RECURSIVE HexValue(_)
HexValue(digits) ==
  IF digits = <<>> THEN 0
  ELSE 16 * HexValue(SubSeq(digits, 1, Len(digits) - 1)) + HexDigitValue(digits[Len(digits)])

parseInt16(string) ==
  LET trimmed == TrimStart(string)
      signed == trimmed # <<>> /\ trimmed[1] \in {43, 45}
      sign == IF signed /\ trimmed[1] = 45 THEN -1 ELSE 1
      unsigned == IF signed THEN Tail(trimmed) ELSE trimmed
      prefixed == Len(unsigned) >= 2 /\ unsigned[1] = 48 /\ unsigned[2] \in {88, 120}
      body == IF prefixed THEN SubSeq(unsigned, 3, Len(unsigned)) ELSE unsigned
      digits == HexPrefix(body)
  IN IF digits = <<>> THEN NaN ELSE JSNumber(sign * HexValue(digits))

isNaN(v) == v.t = "NaN"

(***************************************************************************)
(* Parser.parseCharacterCodePoint.                                         *)
(***************************************************************************)
\* the expression reader.readRequired: the method is read as a property and
\* not called, so its value is the function object and the index stays
reader_readRequired == JSFunction(<<114, 101, 97, 100, 82, 101, 113, 117, 105, 114, 101, 100>>)

\* (c - 0xD800) * 0x400 + c2 - 0xDC00 + 0x10000 for a number c: with c2 a
\* function object the sum is a string and the difference is NaN
surrogatePairCodePoint(c, c2) ==
  IF c2.t = "number" THEN JSNumber((c.n - 55296) * 1024 + c2.n - 56320 + 65536) ELSE NaN

\* case ESCAPED_UNICODE of the switch
parseUnicodeEscape(buf, idx) ==
  LET r1 == readRequiredCount(buf, idx, 4)
      unicodeString == r1.res.value.s
      c == parseInt16(unicodeString)
      k1 == check(buf, r1.index, JSNumber(CHARACTER_ESCAPE))
      k2 == check(buf, k1.index, JSNumber(ESCAPED_UNICODE))
      r2 == readRequiredCount(buf, k2.index, 4)
      unicodeString2 == r2.res.value.s
      c2 == parseInt16(unicodeString2)
  IN IF r1.res.kind = "throw" THEN r1
     ELSE IF isNaN(c) THEN [res |-> ParseError, index |-> r1.index]
     ELSE IF GreaterOrEqual(c, 55296) /\ LessOrEqual(c, 56319) THEN
       IF k1.res.kind = "throw" THEN k1
       ELSE IF k2.res.kind = "throw" THEN k2
       ELSE IF r2.res.kind = "throw" THEN r2
       ELSE IF isNaN(c2) THEN [res |-> ParseError, index |-> r2.index]
       ELSE [res |-> Return(surrogatePairCodePoint(c, c2)), index |-> r2.index]
     ELSE [res |-> Return(c), index |-> r1.index]

\* the branch taken when the first character is the escape character
parseEscaped(buf, idx, delimiter) ==
  LET c == reader_readRequired
  IN IF StrictEquals(c, JSNumber(CHARACTER_ESCAPE)) \/ StrictEquals(c, SOLIDUS_CHAR)
       THEN [res |-> Return(c), index |-> idx]
     ELSE IF StrictEquals(c, JSNumber(ESCAPED_BACKSPACE))
       THEN [res |-> Return(BACKSPACE_CHAR), index |-> idx]
     ELSE IF StrictEquals(c, JSNumber(ESCAPED_FORM_FEED))
       THEN [res |-> Return(FORM_FEED_CHAR), index |-> idx]
     ELSE IF StrictEquals(c, JSNumber(ESCAPED_LINE_FEED))
       THEN [res |-> Return(LINE_FEED_CHAR), index |-> idx]
     ELSE IF StrictEquals(c, JSNumber(ESCAPED_CARRIAGE_RETURN))
       THEN [res |-> Return(CARRIAGE_RETURN_CHAR), index |-> idx]
     ELSE IF StrictEquals(c, JSNumber(ESCAPED_TAB))
       THEN [res |-> Return(CHARACTER_TABULATION_CHAR), index |-> idx]
     ELSE IF StrictEquals(c, JSNumber(ESCAPED_VERTICAL_TAB))
       THEN [res |-> Return(LINE_TABULATION_CHAR), index |-> idx]
     ELSE IF StrictEquals(c, JSNumber(ESCAPED_UNICODE))
       THEN parseUnicodeEscape(buf, idx)
     ELSE IF ~LooseEquals(c, delimiter)
       THEN [res |-> ParseError, index |-> idx]
     ELSE [res |-> Return(c), index |-> idx]

parseCharacterCodePoint(buf, idx, delimiter) ==
  LET c == reader_readRequired
  IN IF LooseEquals(c, delimiter)
       THEN [res |-> Return(JSNumber(-1)), index |-> idx]
     ELSE IF LooseEquals(c, JSNumber(CHARACTER_ESCAPE))
       THEN parseEscaped(buf, idx, delimiter)
     ELSE IF GreaterOrEqual(c, 55296) /\ LessOrEqual(c, 56319)
       THEN LET c2 == reader_readRequired
            IN [res |-> Return(surrogatePairCodePoint(c, c2)), index |-> idx]
     ELSE [res |-> Return(c), index |-> idx]

(***************************************************************************)
(* Serializer.  The appendable is the sequence of units written so far.    *)
(***************************************************************************)
\* mutant: the closing delimiter is not written
serializeResource_Unclosed(appendable, resource) ==
  IF StrictEquals(resource, JSString(<<>>))
    THEN [res |-> Return(Undefined), appendable |-> appendable \o <<34>>]
    ELSE [res |-> Throw("Error"), appendable |-> appendable]

serializeResource(appendable, resource) ==
  IF StrictEquals(resource, JSString(<<>>))
    THEN [res |-> Return(Undefined), appendable |-> appendable \o <<34, 34>>]
    ELSE [res |-> Throw("Error"), appendable |-> appendable]

serializeRoot(appendable, root) ==
  IF LooseEquals(root, Null) THEN [res |-> Return(Undefined), appendable |-> appendable]
  ELSE serializeResource(appendable, root)

serialize(root) ==
  LET writer == <<>>
      written == serializeRoot(writer, root)
  IN IF written.res.kind = "throw" THEN written.res
     ELSE Return(JSString(written.appendable))

stringify(value) == serialize(value)

(***************************************************************************)
(* Inputs.  Buffers are all strings of at most MaxLen units over           *)
(* ShortUnits, and longer strings that hold the escape sequences and the   *)
(* surrogate pairs of the format.                                          *)
(***************************************************************************)
ShortUnits == {65, 66, 92, 110}

Strings(units, maxLen) == UNION {[1 .. n -> units] : n \in 0 .. maxLen}

HighSurrogates == {55296, 55357, 56319}
LowSurrogates == {56320, 56832, 57343}
Mnemonics ==
  {ESCAPED_BACKSPACE, ESCAPED_FORM_FEED, ESCAPED_LINE_FEED, ESCAPED_CARRIAGE_RETURN,
   ESCAPED_TAB, ESCAPED_VERTICAL_TAB}

\* the unit of the upper-case hexadecimal digit d
HexDigitUnit(d) == IF d < 10 THEN 48 + d ELSE 55 + d

\* the six units \uHHHH of the value v
UnicodeEscape(v) ==
  <<CHARACTER_ESCAPE, ESCAPED_UNICODE, HexDigitUnit(v \div 4096), HexDigitUnit((v \div 256) % 16),
    HexDigitUnit((v \div 16) % 16), HexDigitUnit(v % 16)>>

\* what may follow an escaped high surrogate other than an escaped low surrogate
BrokenContinuations ==
  {<<>>, <<65>>, <<CHARACTER_ESCAPE>>, <<CHARACTER_ESCAPE, 65>>, <<65, ESCAPED_UNICODE>>,
   <<CHARACTER_ESCAPE, ESCAPED_UNICODE>>, <<CHARACTER_ESCAPE, ESCAPED_UNICODE, 68, 69>>,
   <<CHARACTER_ESCAPE, ESCAPED_UNICODE, 122, 122, 122, 122>>, <<56832>>, <<39>>,
   <<CHARACTER_ESCAPE, ESCAPED_LINE_FEED>>} \cup {UnicodeEscape(v) : v \in {65, 55357}}

EscapeBuffers ==
  {<<CHARACTER_ESCAPE, e>> : e \in Mnemonics \cup {CHARACTER_ESCAPE, 47, 39, 34, 120}}
    \cup {<<65, CHARACTER_ESCAPE, e, 65>> : e \in Mnemonics \cup {47, 39}}
    \cup {<<u>> : u \in {39, 34, 47, 8, 9, 10, 11, 12, 13}}
    \cup {<<65, 39>>, <<34, 34>>, <<39, 65, 39>>, <<34, 65, 34>>}

UnicodeBuffers ==
  {UnicodeEscape(v) : v \in {0, 65, 233, 56832, 65535}}
    \cup {<<CHARACTER_ESCAPE, ESCAPED_UNICODE>> \o d :
            d \in {<<48, 48, 101, 57>>, <<52, 49, 122, 122>>, <<32, 32, 52, 49>>, <<43, 48, 52, 49>>,
                   <<45, 48, 52, 49>>, <<48, 120, 52, 49>>, <<122, 48, 52, 49>>, <<52, 49>>, <<>>}}

SurrogateBuffers ==
  {UnicodeEscape(h) \o UnicodeEscape(l) : h \in HighSurrogates, l \in LowSurrogates}
    \cup {<<h, l>> : h \in HighSurrogates, l \in LowSurrogates}
    \cup {<<65, h, l, 66>> : h \in HighSurrogates, l \in LowSurrogates}
    \cup {<<h>> : h \in HighSurrogates} \cup {<<h, 65>> : h \in HighSurrogates}
    \cup {UnicodeEscape(h) \o k : h \in HighSurrogates, k \in BrokenContinuations}

Buffers == Strings(ShortUnits, MaxLen) \cup EscapeBuffers \cup UnicodeBuffers \cup SurrogateBuffers

\* the units an argument (a character code or a delimiter) is drawn from
Units == UNION {{b[i] : i \in 1 .. Len(b)} : b \in Buffers}

\* the counts readRequiredCount is called with
Counts == 0 .. MaxCount

\* the values handed to stringify
Values ==
  {JSString(str) : str \in {<<>>, <<65>>, <<65, 66>>, <<47>>, <<10>>, <<92>>, <<34>>, <<55357, 56832>>}}
    \cup {Null, Undefined, JSNumber(0)}

(***************************************************************************)
(* The state machine: one ParseSource, the last call made and its outcome. *)
(***************************************************************************)
NoValue == [t |-> "none", n |-> 0, s |-> <<>>]

Init ==
  /\ buffer \in Buffers
  /\ index = ParseSource(buffer).index
  /\ op = "new"
  /\ arg = JSString(buffer)
  /\ pre = 0
  /\ result = NoResult
  /\ onlyReads = TRUE
  /\ reads = <<>>
  /\ serialized = NoValue
  /\ sources = <<>>
  /\ last = <<>>
  /\ alone = <<>>

\* a method of the cursor was called with argument a, with outcome r
Called(name, a, r) ==
  /\ index' = r.index
  /\ result' = r.res
  /\ op' = name
  /\ arg' = a
  /\ pre' = index
  /\ UNCHANGED <<buffer, serialized>>
  /\ UNCHANGED pairVars

NotARead ==
  /\ onlyReads' = FALSE
  /\ reads' = <<>>

CheckNotEnd ==
  /\ Called("checkNotEnd", Undefined, checkNotEnd(buffer, index))
  /\ NotARead

ReadRequired ==
  LET r == readRequired(buffer, index)
  IN /\ Called("readRequired", Undefined, r)
     /\ onlyReads' = onlyReads
     /\ reads' = IF onlyReads /\ r.res.kind = "return" THEN Append(reads, r.res.value) ELSE reads

ReadRequiredCount(count) ==
  /\ Called("readRequiredCount", JSNumber(count), readRequiredCount(buffer, index, count))
  /\ NotARead

Check(charCode) ==
  /\ Called("check", JSNumber(charCode), check(buffer, index, JSNumber(charCode)))
  /\ NotARead

ParseCharacterCodePoint(delimiter) ==
  /\ Called("parseCharacterCodePoint", JSNumber(delimiter),
            parseCharacterCodePoint(buffer, index, JSNumber(delimiter)))
  /\ NotARead

Stringify(value) ==
  /\ op' = "stringify"
  /\ arg' = value
  /\ result' = stringify(value)
  /\ pre' = index
  /\ NotARead
  /\ UNCHANGED <<buffer, index, serialized>>
  /\ UNCHANGED pairVars

\* the text stringify returned becomes the buffer of a new ParseSource
ParseSerialized ==
  /\ op = "stringify"
  /\ result.kind = "return"
  /\ buffer' = ParseSource(result.value.s).buffer
  /\ index' = ParseSource(result.value.s).index
  /\ op' = "new"
  /\ arg' = result.value
  /\ pre' = 0
  /\ result' = NoResult
  /\ onlyReads' = TRUE
  /\ reads' = <<>>
  /\ serialized' = arg
  /\ UNCHANGED pairVars

Next ==
  \/ CheckNotEnd
  \/ ReadRequired
  \/ \E count \in Counts : ReadRequiredCount(count)
  \/ \E charCode \in Units : Check(charCode)
  \/ \E delimiter \in Units : ParseCharacterCodePoint(delimiter)
  \/ \E value \in Values : Stringify(value)
  \/ ParseSerialized

Spec == Init /\ [][Next]_vars

(***************************************************************************)
(* The same cursor when readRequiredCount is also handed negative counts.  *)
(* Nothing in the code stops the index from falling without end; the model *)
(* stops at MaxBelow under 0.                                              *)
(***************************************************************************)
NegativeCounts == (0 - MaxCount) .. -1

ReadRequiredNegativeCount(count) ==
  /\ index + count >= 0 - MaxBelow
  /\ ReadRequiredCount(count)

NextAnyCount ==
  \/ Next
  \/ \E count \in NegativeCounts : ReadRequiredNegativeCount(count)

SpecAnyCount == Init /\ [][NextAnyCount]_vars

(***************************************************************************)
(* Two parses side by side, each with a ParseSource of its own.  sources   *)
(* is the heap of the two objects, last the outcome of the latest call of  *)
(* each parse, and alone the object and outcome each parse has when its    *)
(* calls are run with no other parse present.                              *)
(***************************************************************************)
Parses == {1, 2}
PairUnits == {65, 92}
PairBuffers == Strings(PairUnits, MaxPairLen)
PairCounts == 0 .. MaxPairLen

\* mutant: the index is one variable shared by every ParseSource
storeIndex_Shared(heap, self, newIndex) ==
  [p \in DOMAIN heap |-> [heap[p] EXCEPT !.index = newIndex]]

\* this.index = newIndex: the field of the object the method was called on
storeIndex(heap, self, newIndex) ==
  [heap EXCEPT ![self].index = newIndex]

InitPair ==
  /\ buffer = <<>>
  /\ index = 0
  /\ op = "new"
  /\ arg = JSString(<<>>)
  /\ pre = 0
  /\ result = NoResult
  /\ onlyReads = TRUE
  /\ reads = <<>>
  /\ serialized = NoValue
  /\ sources \in [Parses -> {ParseSource(b) : b \in PairBuffers}]
  /\ last = [p \in Parses |-> NoResult]
  /\ alone = [p \in Parses |-> [buffer |-> sources[p].buffer, index |-> 0, res |-> NoResult]]

\* parse self made a call whose outcome is r on the heap and a when alone
PairCalled(self, r, a) ==
  /\ sources' = storeIndex(sources, self, r.index)
  /\ last' = [last EXCEPT ![self] = r.res]
  /\ alone' = [alone EXCEPT ![self] = [buffer |-> alone[self].buffer, index |-> a.index, res |-> a.res]]
  /\ UNCHANGED soloVars

PairCheckNotEnd(self) ==
  PairCalled(self, checkNotEnd(sources[self].buffer, sources[self].index),
                   checkNotEnd(alone[self].buffer, alone[self].index))

PairReadRequired(self) ==
  PairCalled(self, readRequired(sources[self].buffer, sources[self].index),
                   readRequired(alone[self].buffer, alone[self].index))

PairReadRequiredCount(self, count) ==
  PairCalled(self, readRequiredCount(sources[self].buffer, sources[self].index, count),
                   readRequiredCount(alone[self].buffer, alone[self].index, count))

PairCheck(self, charCode) ==
  PairCalled(self, check(sources[self].buffer, sources[self].index, JSNumber(charCode)),
                   check(alone[self].buffer, alone[self].index, JSNumber(charCode)))

PairParseCharacterCodePoint(self, delimiter) ==
  PairCalled(self,
             parseCharacterCodePoint(sources[self].buffer, sources[self].index, JSNumber(delimiter)),
             parseCharacterCodePoint(alone[self].buffer, alone[self].index, JSNumber(delimiter)))

NextPair ==
  \E self \in Parses :
    \/ PairCheckNotEnd(self)
    \/ PairReadRequired(self)
    \/ \E count \in PairCounts : PairReadRequiredCount(self, count)
    \/ \E charCode \in PairUnits : PairCheck(self, charCode)
    \/ \E delimiter \in PairUnits : PairParseCharacterCodePoint(self, delimiter)

SpecPair == InitPair /\ [][NextPair]_vars

(***************************************************************************)
(* Properties.                                                             *)
(***************************************************************************)
\* the units of the buffer at the 0-based offsets from .. from + n - 1
UnitsAt(from, n) == [i \in 1 .. n |-> buffer[from + i]]

\* n units are left at the position the last call started from
Remaining(n) == pre + n <= Len(buffer)

\* C1: after every cursor operation, successful or failing, the position
\* lies in 0 .. length of the buffer and is not smaller than before the
\* operation.
C1_PositionBounded ==
  /\ 0 <= index
  /\ index <= Len(buffer)
  /\ pre <= index

C1_Witness ==
  /\ op = "check"
  /\ result.kind = "throw"
  /\ pre >= 1
  /\ index = Len(buffer)

\* C2: readRequiredCount(count), count >= 0, throws ParseEndError and keeps
\* the position when count > length - position; otherwise it returns the
\* units at position .. position + count - 1 and adds count to the position.
C2_ReadExactly ==
  op = "readRequiredCount" =>
    IF arg.n > Len(buffer) - pre
      THEN result = ParseEndError /\ index = pre
      ELSE result = Return(JSString(UnitsAt(pre, arg.n))) /\ index = pre + arg.n

C2_Witness ==
  /\ op = "readRequiredCount"
  /\ result.kind = "return"
  /\ pre >= 1
  /\ arg.n >= 2

\* C3: check(charCode) away from the end advances the position by exactly
\* 1, returning the unit read when it equals charCode and throwing
\* ParseUnexpectedDataError(charCode, unit) when it does not; at the end it
\* throws ParseEndError and keeps the position.
C3_ExpectConsumes ==
  op = "check" =>
    IF pre < Len(buffer)
      THEN /\ index = pre + 1
           /\ IF buffer[pre + 1] = arg.n
                THEN result = Return(JSNumber(buffer[pre + 1]))
                ELSE result = ParseUnexpectedDataError(arg, JSNumber(buffer[pre + 1]))
      ELSE result = ParseEndError /\ index = pre

C3_Witness ==
  /\ op = "check"
  /\ result.error = "ParseUnexpectedDataError"
  /\ index = pre + 1

\* C4: while only readRequired has been called on a cursor, the k-th
\* successful call returned the k-th unit and the position is the number of
\* successful calls; a call at a position before the end succeeds, and a
\* call at the end throws ParseEndError and keeps the position.
C4_SequentialReads ==
  onlyReads =>
    /\ op = "readRequired" =>
         IF pre < Len(buffer)
           THEN result = Return(JSNumber(buffer[pre + 1])) /\ index = pre + 1
           ELSE result = ParseEndError /\ index = Len(buffer)
    /\ index = Len(reads)
    /\ \A i \in 1 .. Len(reads) : reads[i] = JSNumber(buffer[i])

C4_Witness ==
  /\ onlyReads
  /\ op = "readRequired"
  /\ Len(buffer) >= 3
  /\ Len(reads) = Len(buffer)
  /\ result = ParseEndError

\* what the last parseCharacterCodePoint call did
Parsed == op = "parseCharacterCodePoint"
ParsedCodePoint(codePoint, advance) ==
  result = Return(JSNumber(codePoint)) /\ index = pre + advance

\* C5: parseCharacterCodePoint called with the unit at the position equal
\* to the delimiter returns -1 and advances the position by exactly 1.
C5_DelimiterEndsLiteral ==
  (Parsed /\ Remaining(1) /\ buffer[pre + 1] = arg.n) => ParsedCodePoint(-1, 1)

\* the control character an escape mnemonic stands for
ControlCharacter(e) ==
  CASE e = ESCAPED_BACKSPACE -> 8
    [] e = ESCAPED_FORM_FEED -> 12
    [] e = ESCAPED_LINE_FEED -> 10
    [] e = ESCAPED_CARRIAGE_RETURN -> 13
    [] e = ESCAPED_TAB -> 9
    [] e = ESCAPED_VERTICAL_TAB -> 11

\* C6: on the escape character followed by a mnemonic letter, with a
\* delimiter other than the escape character, parseCharacterCodePoint
\* returns the control character of the letter and advances by exactly 2.
C6_MnemonicEscapes ==
  (/\ Parsed
   /\ arg.n # CHARACTER_ESCAPE
   /\ Remaining(2)
   /\ buffer[pre + 1] = CHARACTER_ESCAPE
   /\ buffer[pre + 2] \in Mnemonics)
    => ParsedCodePoint(ControlCharacter(buffer[pre + 2]), 2)

SurrogatePair(h, l) == (h - 55296) * 1024 + (l - 56320) + 65536

\* C7: a high surrogate h and a low surrogate l decode to the code point
\* (h - 0xD800) * 0x400 + (l - 0xDC00) + 0x10000, as the two escapes
\* \uHHHH\uLLLL advancing by exactly 12 and as the two raw units advancing
\* by exactly 2.
C7_SurrogatePairs ==
  \A h \in HighSurrogates, l \in LowSurrogates :
    /\ (/\ Parsed
        /\ arg.n # CHARACTER_ESCAPE
        /\ Remaining(12)
        /\ UnitsAt(pre, 12) = UnicodeEscape(h) \o UnicodeEscape(l))
         => ParsedCodePoint(SurrogatePair(h, l), 12)
    /\ (/\ Parsed
        /\ arg.n # h
        /\ Remaining(2)
        /\ UnitsAt(pre, 2) = <<h, l>>)
         => ParsedCodePoint(SurrogatePair(h, l), 2)

\* the units from the 0-based offset from on are \u and four hexadecimal
\* digits whose value lies in lo .. hi
EscapedIn(from, lo, hi) ==
  /\ from + 6 <= Len(buffer)
  /\ buffer[from + 1] = CHARACTER_ESCAPE
  /\ buffer[from + 2] = ESCAPED_UNICODE
  /\ \A i \in 3 .. 6 : HexDigitValue(buffer[from + i]) >= 0
  /\ HexValue(SubSeq(buffer, from + 3, from + 6)) \in lo .. hi

\* C8: on an escaped high surrogate that is not followed by \u and a low
\* surrogate, parseCharacterCodePoint throws ParseUnexpectedDataError.
C8_LoneEscapedHighSurrogate ==
  (/\ Parsed
   /\ arg.n # CHARACTER_ESCAPE
   /\ EscapedIn(pre, 55296, 56319)
   /\ ~EscapedIn(pre + 6, 56320, 57343))
    => result.error = "ParseUnexpectedDataError"

\* the strings of units that are neither escaped nor the delimiter nor a
\* surrogate, so that each unit is one code point
IsPlain(value) ==
  /\ value.t = "string"
  /\ \A i \in 1 .. Len(value.s) :
       /\ value.s[i] \notin {CHARACTER_REQUIRED_ESCAPED_CHARACTERS[j] : j \in 1 .. 7}
       /\ value.s[i] \notin {CHARACTER_OPTIONAL_ESCAPED_CHARACTERS[j] : j \in 1 .. 1}
       /\ value.s[i] \notin {34, 39}
       /\ value.s[i] \notin 55296 .. 57343

\* C9: a plain string is serialized to its units between two delimiters,
\* and parsing that text from behind the opening delimiter gives the code
\* points of the string in order and then -1 at the closing delimiter.
C9_RoundTrip ==
  /\ (op = "stringify" /\ IsPlain(arg)) =>
       /\ result.kind = "return"
       /\ Len(result.value.s) = Len(arg.s) + 2
       /\ result.value.s[1] = result.value.s[Len(result.value.s)]
  /\ (/\ IsPlain(serialized)
      /\ Parsed
      /\ pre >= 1
      /\ Remaining(1)
      /\ arg.n = buffer[1])
       => IF pre = Len(buffer) - 1
            THEN ParsedCodePoint(-1, 1)
            ELSE ParsedCodePoint(serialized.s[pre], 1)

\* C10: stringify of the empty string returns exactly two units, the
\* quotation mark that opens the literal and the same one closing it.
C10_EmptyString ==
  (op = "stringify" /\ arg = JSString(<<>>)) => result = Return(JSString(<<34, 34>>))

C10_Witness ==
  /\ op = "stringify"
  /\ arg = JSString(<<>>)
  /\ result.kind = "return"
  /\ Len(result.value.s) = 2

\* C11: every parseCharacterCodePoint call that returns has advanced the
\* position by at least 1 and at most 12, so that repeated calls on a
\* buffer come to an end.
C11_DecodeAdvances ==
  (Parsed /\ result.kind = "return") => (index >= pre + 1 /\ index <= pre + 12)

\* C12: every value parseCharacterCodePoint returns is -1 or a code point
\* in 0 .. 0x10FFFF.
C12_CodePointRange ==
  (Parsed /\ result.kind = "return") =>
    /\ result.value.t = "number"
    /\ result.value.n \in {-1} \cup (0 .. 1114111)

\* the unit at the 0-based offset from is a high surrogate
RawHighAt(from) == from + 1 <= Len(buffer) /\ buffer[from + 1] \in 55296 .. 56319

\* C13: a high surrogate, raw or escaped, that is followed by a second
\* value outside the low surrogates makes parseCharacterCodePoint throw
\* ParseError.
C13_LowSurrogateValidated ==
  /\ (/\ Parsed
      /\ RawHighAt(pre)
      /\ arg.n # buffer[pre + 1]
      /\ Remaining(2)
      /\ buffer[pre + 2] \notin 56320 .. 57343)
       => result = ParseError
  /\ (/\ Parsed
      /\ arg.n # CHARACTER_ESCAPE
      /\ EscapedIn(pre, 55296, 56319)
      /\ EscapedIn(pre + 6, 0, 65535)
      /\ ~EscapedIn(pre + 6, 56320, 57343))
       => result = ParseError

\* the escape character and u are at the position and 4 more units follow
UnicodeEscapeAt(from) ==
  /\ from + 6 <= Len(buffer)
  /\ buffer[from + 1] = CHARACTER_ESCAPE
  /\ buffer[from + 2] = ESCAPED_UNICODE

\* C14: behind \u, 4 units that are not all hexadecimal digits make
\* parseCharacterCodePoint throw ParseError; 4 hexadecimal digits whose
\* value is not a high surrogate are returned as that value, the position
\* advanced by exactly 6.
C14_FourHexDigits ==
  (Parsed /\ arg.n # CHARACTER_ESCAPE /\ UnicodeEscapeAt(pre)) =>
    IF \E i \in 3 .. 6 : HexDigitValue(buffer[pre + i]) < 0
      THEN result = ParseError
      ELSE HexValue(SubSeq(buffer, pre + 3, pre + 6)) \notin 55296 .. 56319
             => ParsedCodePoint(HexValue(SubSeq(buffer, pre + 3, pre + 6)), 6)

\* C15: behind the escape character, a unit that is none of the escape
\* character, the solidus, a mnemonic and u is returned as a code point,
\* the position advanced by 2, when it is the delimiter, and makes
\* parseCharacterCodePoint throw ParseError when it is not.
C15_EscapedDelimiter ==
  (/\ Parsed
   /\ arg.n # CHARACTER_ESCAPE
   /\ Remaining(2)
   /\ buffer[pre + 1] = CHARACTER_ESCAPE
   /\ buffer[pre + 2] \notin Mnemonics \cup {CHARACTER_ESCAPE, 47, ESCAPED_UNICODE})
    => IF buffer[pre + 2] = arg.n
         THEN ParsedCodePoint(buffer[pre + 2], 2)
         ELSE result = ParseError

\* C16: the solidus is returned as 0x2F both raw, advancing by 1, and
\* escaped, advancing by 2; the escaped escape character is returned as
\* 0x5C, advancing by 2.
C16_OptionalEscape ==
  /\ (Parsed /\ arg.n \notin {47, CHARACTER_ESCAPE} /\ Remaining(1) /\ buffer[pre + 1] = 47)
       => ParsedCodePoint(47, 1)
  /\ (/\ Parsed
      /\ arg.n # CHARACTER_ESCAPE
      /\ Remaining(2)
      /\ buffer[pre + 1] = CHARACTER_ESCAPE
      /\ buffer[pre + 2] \in {47, CHARACTER_ESCAPE})
       => ParsedCodePoint(buffer[pre + 2], 2)

\* C17: a raw control character among 0x08 .. 0x0D as the first unit makes
\* parseCharacterCodePoint throw ParseError.
C17_RawControlRejected ==
  (/\ Parsed
   /\ Remaining(1)
   /\ buffer[pre + 1] \in 8 .. 13
   /\ arg.n # buffer[pre + 1])
    => result = ParseError

\* the buffer ends at the 0-based offset from inside an escape \uHHHH
EndsInsideUnicodeEscape(from) ==
  /\ Len(buffer) - from \in 0 .. 5
  /\ Len(buffer) - from >= 1 => buffer[from + 1] = CHARACTER_ESCAPE
  /\ Len(buffer) - from >= 2 => buffer[from + 2] = ESCAPED_UNICODE
  /\ \A i \in 3 .. Len(buffer) - from : HexDigitValue(buffer[from + i]) >= 0

\* C18: parseCharacterCodePoint throws ParseEndError when the buffer ends
\* before the character is complete: at the end of the buffer, behind a
\* lone escape character, with fewer than 4 units behind \u, behind an
\* escaped high surrogate or inside its second escape, and behind a raw
\* high surrogate.
C18_EndOfInput ==
  (/\ Parsed
   /\ pre >= 0
   /\ \/ pre >= Len(buffer)
      \/ /\ arg.n # CHARACTER_ESCAPE
         /\ pre + 1 = Len(buffer)
         /\ buffer[pre + 1] = CHARACTER_ESCAPE
      \/ /\ arg.n # CHARACTER_ESCAPE
         /\ pre + 2 <= Len(buffer)
         /\ pre + 6 > Len(buffer)
         /\ buffer[pre + 1] = CHARACTER_ESCAPE
         /\ buffer[pre + 2] = ESCAPED_UNICODE
      \/ /\ arg.n # CHARACTER_ESCAPE
         /\ EscapedIn(pre, 55296, 56319)
         /\ EndsInsideUnicodeEscape(pre + 6)
      \/ /\ pre + 1 = Len(buffer)
         /\ RawHighAt(pre)
         /\ arg.n # buffer[pre + 1])
    => result = ParseEndError

\* C19: each of two parses with a ParseSource of its own has, under every
\* interleaving of their calls, the buffer, the position and the outcome
\* it has when its calls run alone.
C19_Independent ==
  \A p \in DOMAIN sources :
    /\ sources[p].buffer = alone[p].buffer
    /\ sources[p].index = alone[p].index
    /\ last[p] = alone[p].res

C19_Witness ==
  /\ DOMAIN sources = Parses
  /\ sources[1].index = 2
  /\ sources[2].index = 1
  /\ last[1].kind = "return"
  /\ last[2].error = "ParseUnexpectedDataError"

\* C20: readRequiredCount(count) with any integer count, negative ones
\* included, leaves the position at or behind where it was and within
\* 0 .. length of the buffer.
C20_NeverBackwards ==
  (op = "readRequiredCount" /\ pre \in 0 .. Len(buffer)) =>
    (index >= pre /\ index \in 0 .. Len(buffer))

====
